---- MODULE Spec2Model ----
(***************************************************************************)
(* bevy-rapier-fps, src/main.rs: the systems cast_shape and                *)
(* collision_events and the function ray_from_mouse_position.              *)
(*                                                                         *)
(* f32 values are modelled as exact rationals extended with the IEEE-754   *)
(* special values: a value is a pair <<n, d>> in lowest terms with d > 0,  *)
(* or <<1, 0>> (+Inf), <<-1, 0>> (-Inf), <<0, 0>> (NaN).  Rounding, the    *)
(* sign of zero and overflow to infinity are not modelled: every operation *)
(* returns the exact quotient, and x / 0 is +Inf, -Inf or NaN by the sign  *)
(* of x.                                                                   *)
(*                                                                         *)
(* Three specifications.  SpecRay: one call of ray_from_mouse_position on  *)
(* a window and a camera drawn from bounded sets.  Spec: the frame loop,   *)
(* in which the engine changes the window, the camera and the mouse        *)
(* buttons and the update stage runs cast_shape.  SpecCollision: the       *)
(* physics world emits collision events and collision_events paints.  The  *)
(* two systems share no state (cast_shape only adds entities,              *)
(* collision_events only writes ColliderDebugColor), so each runs in its   *)
(* own specification.                                                      *)
(***************************************************************************)
EXTENDS Integers, Sequences, FiniteSets, TLC

VARIABLES
    windows,        \* Res<Windows>: <<>> (no primary window) or <<window>>
    mouse_button_input, \* Res<Input<MouseButton>>: [pressed, just_pressed]
    cameras,        \* Query<(&Camera, &GlobalTransform)>: sequence of cameras
    bodies,         \* entities spawned by cast_shape, in spawn order
    pc,             \* "input": the engine feeds the frame; "update": systems run
    panicked,       \* a system panicked: the app is gone
    ray,            \* result of the last ray_from_mouse_position call, or <<>>
    colour,         \* ColliderDebugColor of each entity
    contacts,       \* pairs of entities in contact (state of the physics world)
    events          \* Events<CollisionEvent> not yet read by collision_events

vars == <<windows, mouse_button_input, cameras, bodies, pc, panicked, ray,
          colour, contacts, events>>

-----------------------------------------------------------------------------
(* f32 arithmetic                                                          *)

Abs(n) == IF n < 0 THEN -n ELSE n

Sign(n) == IF n < 0 THEN -1 ELSE IF n > 0 THEN 1 ELSE 0

RECURSIVE GCD(_, _)
GCD(a, b) == IF b = 0 THEN a ELSE GCD(b, a % b)

\* the f32 with value n/d
F(n, d) ==
    IF d = 0 THEN <<Sign(n), 0>>
    ELSE LET g == GCD(Abs(n), Abs(d))
         IN  <<(Sign(d) * n) \div g, Abs(d) \div g>>

NaN == <<0, 0>>

PInf == <<1, 0>>

Lit(n) == <<n, 1>>

IsFinite(a) == a[2] # 0

\* a + b
FAdd(a, b) ==
    IF a[2] = 0 /\ b[2] = 0
    THEN (IF a = b THEN a ELSE NaN)
    ELSE F(a[1] * b[2] + b[1] * a[2], a[2] * b[2])

\* -a
FNeg(a) == <<-a[1], a[2]>>

\* a - b
FSub(a, b) == FAdd(a, FNeg(b))

\* a * b
FMul(a, b) == F(a[1] * b[1], a[2] * b[2])

\* f32::recip: 1 / a
FRecip(a) ==
    IF a[2] = 0 THEN (IF a[1] = 0 THEN NaN ELSE Lit(0))
    ELSE IF a[1] = 0 THEN PInf
    ELSE F(a[2], a[1])

\* a / b
FDiv(a, b) == FMul(a, FRecip(b))

\* a <= b on finite values
FLe(a, b) == a[1] * b[2] <= b[1] * a[2]

\* f32::sqrt on the values whose root is rational (all the model takes it of)
ISqrt(n) == CHOOSE k \in 0..n : k * k = n

FSqrt(a) ==
    IF a[2] = 0 THEN (IF a = PInf THEN PInf ELSE NaN)
    ELSE IF a[1] < 0 THEN NaN
    ELSE F(ISqrt(a[1]), ISqrt(a[2]))

-----------------------------------------------------------------------------
(* glam: Vec3, Vec4, Mat4 (a matrix is the tuple of its rows)              *)

Vec3(x, y, z) == <<x, y, z>>

\* Vec3::extend
extend(v, w) == <<v[1], v[2], v[3], w>>

\* Vec4::truncate
truncate(v) == <<v[1], v[2], v[3]>>

Vec3Sub(a, b) == [i \in 1..3 |-> FSub(a[i], b[i])]

Vec3Scale(a, s) == [i \in 1..3 |-> FMul(a[i], s)]

Vec3DivScalar(a, s) == [i \in 1..3 |-> FDiv(a[i], s)]

Vec3Neg(a) == [i \in 1..3 |-> FNeg(a[i])]

Dot3(a, b) == FAdd(FAdd(FMul(a[1], b[1]), FMul(a[2], b[2])), FMul(a[3], b[3]))

\* Vec3::normalize: self * self.length_recip()
normalize(v) == Vec3Scale(v, FRecip(FSqrt(Dot3(v, v))))

Sum4(f) == FAdd(FAdd(FAdd(f[1], f[2]), f[3]), f[4])

\* Mat4 * Vec4
MatVec(m, v) == [i \in 1..4 |-> Sum4([k \in 1..4 |-> FMul(m[i][k], v[k])])]

\* Mat4 * Mat4
MatMul(a, b) ==
    [i \in 1..4 |-> [j \in 1..4 |-> Sum4([k \in 1..4 |-> FMul(a[i][k], b[k][j])])]]

Others(i) ==
    CASE i = 1 -> <<2, 3, 4>>
      [] i = 2 -> <<1, 3, 4>>
      [] i = 3 -> <<1, 2, 4>>
      [] i = 4 -> <<1, 2, 3>>

Det2(m, r1, r2, c1, c2) ==
    FSub(FMul(m[r1][c1], m[r2][c2]), FMul(m[r1][c2], m[r2][c1]))

\* determinant of the 3x3 submatrix on rows r and columns c
Det3(m, r, c) ==
    FAdd(FSub(FMul(m[r[1]][c[1]], Det2(m, r[2], r[3], c[2], c[3])),
              FMul(m[r[1]][c[2]], Det2(m, r[2], r[3], c[1], c[3]))),
         FMul(m[r[1]][c[3]], Det2(m, r[2], r[3], c[1], c[2])))

Cofactor(m, i, j) ==
    LET d == Det3(m, Others(i), Others(j))
    IN  IF (i + j) % 2 = 0 THEN d ELSE FNeg(d)

\* Mat4::determinant
Det(m) == Sum4([j \in 1..4 |-> FMul(m[1][j], Cofactor(m, 1, j))])

\* Mat4::inverse: the adjugate times det.recip(); glam_assert!(det != 0.0)
\* is compiled out unless the glam-assert feature is on, so a zero
\* determinant yields Inf and NaN entries
Inverse(m) ==
    LET rcp_det == FRecip(Det(m))
    IN  [i \in 1..4 |-> [j \in 1..4 |-> FMul(Cofactor(m, j, i), rcp_det)]]

-----------------------------------------------------------------------------
(* Camera and window state read by the systems                             *)

\* Mat4::perspective_infinite_reverse_rh; f = 1 / tan(fov / 2)
perspective_infinite_reverse_rh(f, aspect_ratio, z_near) ==
    << <<FDiv(f, aspect_ratio), Lit(0), Lit(0),  Lit(0)>>,
       <<Lit(0),                f,      Lit(0),  Lit(0)>>,
       <<Lit(0),                Lit(0), Lit(0),  z_near>>,
       <<Lit(0),                Lit(0), Lit(-1), Lit(0)>> >>

\* 1 / tan(fov / 2) and z_near of the camera: rational stand-ins for the
\* defaults fov = pi/4 (2.414...) and near = 0.1 of Camera3dBundle
FocalLength == F(12, 5)

ZNear == F(1, 10)

\* Camera::projection_matrix: the matrix of the PerspectiveProjection, a
\* camera being [aspect_ratio, transform]
projection_matrix(camera) ==
    perspective_infinite_reverse_rh(FocalLength, camera.aspect_ratio, ZNear)

\* GlobalTransform::compute_matrix, a transform being [cos, sin,
\* translation]: the rotation by the angle with that cosine and sine about
\* the Y axis, then the translation
compute_matrix(camera_transform) ==
    LET c == camera_transform.cos
        s == camera_transform.sin
        t == camera_transform.translation
    IN  << <<c,       Lit(0), s,      Lit(t[1])>>,
           <<Lit(0),  Lit(1), Lit(0), Lit(t[2])>>,
           <<FNeg(s), Lit(0), c,      Lit(t[3])>>,
           <<Lit(0),  Lit(0), Lit(0), Lit(1)>> >>

\* aspect ratios the projection was last updated with; width / 0 = +Inf
\* makes the first column zero and the matrix singular
AspectRatios == {Lit(1), Lit(2), PInf}

\* main.rs:34: the camera is spawned at (-30, 30, 100); the fly camera
\* turns it
SpawnTranslation == <<-30, 30, 100>>

PoseSpawn == [cos |-> Lit(1), sin |-> Lit(0), translation |-> SpawnTranslation]

PoseTurned == [cos |-> F(3, 5), sin |-> F(4, 5), translation |-> SpawnTranslation]

Poses == {PoseSpawn, PoseTurned}

Camera(aspect_ratio, pose) == [aspect_ratio |-> aspect_ratio, transform |-> pose]

CameraStates == {Camera(a, t) : a \in AspectRatios, t \in Poses}

\* GlobalTransform::forward: -(matrix3 * Vec3::Z).normalize()
forward(camera_transform) ==
    LET m == compute_matrix(camera_transform)
    IN  Vec3Neg(normalize(Vec3(m[1][3], m[2][3], m[3][3])))

\* Option<T>: <<>> is None, <<v>> is Some(v)
None == <<>>

Some(v) == <<v>>

unwrap_or(opt, default) == IF opt = None THEN default ELSE opt[1]

Window(w, h, cursor) == [width |-> w, height |-> h, cursor_position |-> cursor]

-----------------------------------------------------------------------------
(* ray_from_mouse_position                                                 *)

\* a fallback to the centre of the window instead of the origin
mouse_position_of_centre(window) ==
    unwrap_or(window.cursor_position, <<window.width \div 2, window.height \div 2>>)

\* main.rs:172
mouse_position_of(window) == unwrap_or(window.cursor_position, <<0, 0>>)

\* the axis flipped: 1.0 - 2.0 * (p / size)
ndc_flipped(p, size) == FSub(Lit(1), FMul(Lit(2), FDiv(Lit(p), Lit(size))))

\* the pixel index taken over size - 1
ndc_last_pixel(p, size) == FSub(FMul(Lit(2), FDiv(Lit(p), Lit(size - 1))), Lit(1))

\* main.rs:174-175: 2.0 * (p / size) - 1.0
ndc(p, size) == FSub(FMul(Lit(2), FDiv(Lit(p), Lit(size))), Lit(1))

\* the locals x, y of ray_from_mouse_position
pick_point(window) ==
    LET mouse_position == mouse_position_of(window)
    IN  <<ndc(mouse_position[1], window.width), ndc(mouse_position[2], window.height)>>

\* main.rs:177-178
camera_inverse_matrix(camera) ==
    MatMul(compute_matrix(camera.transform), Inverse(projection_matrix(camera)))

\* camera_inverse_matrix, evaluated once per camera state
CameraInverseMatrix == [c \in CameraStates |-> camera_inverse_matrix(c)]

\* main.rs:179-183: a clip-space point through camera_inverse_matrix, then
\* divided by its w
unproject(camera, x, y, z) ==
    LET p == MatVec(CameraInverseMatrix[camera], extend(Vec3(x, y, z), Lit(1)))
    IN  Vec3DivScalar(truncate(p), p[4])

ray_from_mouse_position(window, camera) ==
    LET xy   == pick_point(window)
        near == unproject(camera, xy[1], xy[2], Lit(-1))
        far  == unproject(camera, xy[1], xy[2], Lit(1))
        dir  == Vec3Sub(far, near)
    IN  <<near, dir>>

-----------------------------------------------------------------------------
(* One call of ray_from_mouse_position on inputs drawn from bounded sets   *)

MaxDim == 4

RayWindows ==
    {Window(w, h, c) : w \in 0..MaxDim, h \in 0..MaxDim,
                       c \in {None} \cup {Some(<<px, py>>) : px \in 0..MaxDim, py \in 0..MaxDim}}

InitRay ==
    /\ windows \in {Some(w) : w \in RayWindows}
    /\ cameras \in {<<c>> : c \in CameraStates}
    /\ mouse_button_input = [pressed |-> {}, just_pressed |-> {}]
    /\ bodies = <<>>
    /\ pc = "call"
    /\ panicked = FALSE
    /\ ray = None
    /\ colour = <<>>
    /\ contacts = {}
    /\ events = <<>>

CallRay ==
    /\ pc = "call"
    /\ ray = None
    /\ LET r == ray_from_mouse_position(windows[1], cameras[1])
       IN  ray' = Some([ndc |-> pick_point(windows[1]), origin |-> r[1], direction |-> r[2]])
    /\ UNCHANGED <<windows, mouse_button_input, cameras, bodies, pc, panicked,
                   colour, contacts, events>>

NextRay == CallRay

SpecRay == InitRay /\ [][NextRay]_vars

-----------------------------------------------------------------------------
(* The frame loop: the engine feeds Res<Windows>, Res<Input<MouseButton>>  *)
(* and the camera, then the update stage runs cast_shape                   *)

MaxBodies == 3

Buttons == {"Left", "Right"}

\* the camera states of the frame loop: the camera turned, with an
\* invertible projection, and the camera as spawned, with a projection last
\* updated with a window of height zero
FrameCameras == {Camera(Lit(1), PoseTurned), Camera(PInf, PoseSpawn)}

\* the window states of the frame loop: no primary window, the cursor
\* outside the window, the cursor at its centre, a window of width zero
FrameWindows ==
    {None, Some(Window(2, 2, None)), Some(Window(2, 2, Some(<<1, 1>>))),
     Some(Window(0, 2, Some(<<1, 1>>)))}

\* Windows::get_primary
get_primary(ws) == ws

\* Input::just_pressed
just_pressed(input, button) == button \in input.just_pressed

Init ==
    /\ windows = Some(Window(2, 2, None))
    /\ cameras = <<Camera(Lit(1), PoseTurned)>>
    /\ mouse_button_input = [pressed |-> {}, just_pressed |-> {}]
    /\ bodies = <<>>
    /\ pc = "input"
    /\ panicked = FALSE
    /\ ray = None
    /\ colour = <<>>
    /\ contacts = {}
    /\ events = <<>>

\* the window is resized or closed, or the cursor moves
window_event ==
    /\ pc = "input" /\ ~panicked
    /\ windows' \in FrameWindows \ {windows}
    /\ UNCHANGED <<mouse_button_input, cameras, bodies, pc, panicked, ray,
                   colour, contacts, events>>

\* the fly camera turns, or the projection is updated
camera_event ==
    /\ pc = "input" /\ ~panicked
    /\ cameras' \in {<<c>> : c \in FrameCameras} \ {cameras}
    /\ UNCHANGED <<windows, mouse_button_input, bodies, pc, panicked, ray,
                   colour, contacts, events>>

\* bevy_input's mouse_button_input_system at the start of a frame:
\* Input::clear, then press / release for the frame's button events (at
\* most one per button); a press makes the button just pressed only if it
\* was not pressed.  A left press is fed only while the bodies it spawns
\* fit in MaxBodies
mouse_button_input_system ==
    /\ pc = "input" /\ ~panicked
    /\ \E press \in SUBSET Buttons, release \in SUBSET Buttons :
        /\ press \cap release = {}
        /\ ("Left" \in press \ mouse_button_input.pressed) =>
               Len(bodies) + Len(cameras) <= MaxBodies
        /\ mouse_button_input' =
               [pressed      |-> (mouse_button_input.pressed \cup press) \ release,
                just_pressed |-> press \ mouse_button_input.pressed]
    /\ pc' = "update"
    /\ UNCHANGED <<windows, cameras, bodies, panicked, ray, colour, contacts, events>>

\* main.rs:128: camera_transform.forward() * 5000.0
ImpulseMagnitude == 5000

\* the impulse along the ray instead of the camera's forward axis
spawn_impulse_along_ray(window, camera) ==
    LET r == ray_from_mouse_position(window, camera)
    IN  [translation |-> r[1],
         linvel      |-> r[2],
         impulse     |-> Vec3Scale(r[2], Lit(ImpulseMagnitude)),
         click       |-> [window |-> window, camera |-> camera]]

\* the ray of the previous cast kept and reused by every second cast
spawn_cached_ray(window, camera) ==
    LET r == IF Len(bodies) % 2 = 0 THEN ray_from_mouse_position(window, camera)
             ELSE <<bodies[Len(bodies)].translation, bodies[Len(bodies)].linvel>>
    IN  [translation |-> r[1],
         linvel      |-> r[2],
         impulse     |-> Vec3Scale(forward(camera.transform), Lit(ImpulseMagnitude)),
         click       |-> [window |-> window, camera |-> camera]]

\* main.rs:115-134, one iteration of the loop: the entity spawned for a
\* camera.  click is not a component: it records the inputs of the cast
spawn(window, camera) ==
    LET r == ray_from_mouse_position(window, camera)
    IN  [translation |-> r[1],
         linvel      |-> r[2],
         impulse     |-> Vec3Scale(forward(camera.transform), Lit(ImpulseMagnitude)),
         click       |-> [window |-> window, camera |-> camera]]

\* main.rs:104-137.  get_primary().unwrap() panics in the first iteration
\* when there is no primary window; the commands of a panicked system are
\* never applied
cast_shape ==
    /\ pc = "update" /\ ~panicked
    /\ IF just_pressed(mouse_button_input, "Left")
       THEN IF cameras # <<>> /\ get_primary(windows) = None
            THEN /\ panicked' = TRUE
                 /\ UNCHANGED <<bodies, pc>>
            ELSE /\ bodies' = bodies \o [i \in 1..Len(cameras) |-> spawn(windows[1], cameras[i])]
                 /\ pc' = "input"
                 /\ UNCHANGED panicked
       ELSE /\ pc' = "input"
            /\ UNCHANGED <<bodies, panicked>>
    /\ UNCHANGED <<windows, mouse_button_input, cameras, ray, colour, contacts, events>>

Next == window_event \/ camera_event \/ mouse_button_input_system \/ cast_shape

Spec == Init /\ [][Next]_vars

-----------------------------------------------------------------------------
(* The physics world emits collision events; collision_events paints       *)

NumEntities == 3

MaxEvents == 2

Entities == 1..NumEntities

InitCollision ==
    /\ windows = Some(Window(2, 2, None))
    /\ cameras = <<Camera(Lit(1), PoseTurned)>>
    /\ mouse_button_input = [pressed |-> {}, just_pressed |-> {}]
    /\ bodies = <<>>
    /\ pc = "input"
    /\ panicked = FALSE
    /\ ray = None
    /\ colour = [e \in Entities |-> "NONE"]
    /\ contacts = {}
    /\ events = <<>>

\* the physics step: two colliders that were apart touch (Started), or two
\* that touched part (Stopped)
step_simulation ==
    /\ Len(events) < MaxEvents
    /\ \E a \in Entities : \E b \in Entities \ {a} :
           \/ /\ {a, b} \notin contacts
              /\ contacts' = contacts \cup {{a, b}}
              /\ events' = Append(events, [kind |-> "Started", entity1 |-> a, entity2 |-> b])
           \/ /\ {a, b} \in contacts
              /\ contacts' = contacts \ {{a, b}}
              /\ events' = Append(events, [kind |-> "Stopped", entity1 |-> a, entity2 |-> b])
    /\ UNCHANGED <<windows, mouse_button_input, cameras, bodies, pc, panicked, ray, colour>>

\* main.rs:144-162: the colours after one event
paint(col, collision_event) ==
    LET color == IF collision_event.kind = "Started" THEN "YELLOW" ELSE "BLUE"
    IN  [col EXCEPT ![collision_event.entity1] = color,
                    ![collision_event.entity2] = color]

\* main.rs:141: the loop over the events read
RECURSIVE paint_all(_, _)
paint_all(col, evs) ==
    IF evs = <<>> THEN col ELSE paint_all(paint(col, Head(evs)), Tail(evs))

\* main.rs:140-164
collision_events ==
    /\ colour' = paint_all(colour, events)
    /\ events' = <<>>
    /\ UNCHANGED <<windows, mouse_button_input, cameras, bodies, pc, panicked, ray, contacts>>

NextCollision == step_simulation \/ collision_events

SpecCollision == InitCollision /\ [][NextCollision]_vars

-----------------------------------------------------------------------------
(* Properties of ray_from_mouse_position (SpecRay)                         *)

TheWindow == windows[1]

TheCamera == cameras[1]

ValidViewport(w) == w.width > 0 /\ w.height > 0

\* the camera states whose projection matrix has determinant zero
SingularCameras == {c \in CameraStates : Det(projection_matrix(c)) = Lit(0)}

Invertible(camera) == camera \notin SingularCameras

FiniteVec(v) == \A i \in 1..3 : IsFinite(v[i])

SameRay(res, r) == res.origin = r[1] /\ res.direction = r[2]

WithCursor(w, c) == [w EXCEPT !.cursor_position = c]

\* C4: a call with no cursor position returns the ray of the same call with
\* the cursor at pixel (0, 0)
C4_FallbackDeterminism ==
    (ray # None /\ TheWindow.cursor_position = None) =>
        SameRay(ray[1], ray_from_mouse_position(WithCursor(TheWindow, Some(<<0, 0>>)),
                                                TheCamera))

C4_Witness ==
    /\ ray # None
    /\ TheWindow.cursor_position = None
    /\ ValidViewport(TheWindow)
    /\ Invertible(TheCamera)
    /\ FiniteVec(ray[1].origin) /\ FiniteVec(ray[1].direction)
    /\ ray[1].ndc = <<Lit(-1), Lit(-1)>>

InViewport(w) ==
    /\ w.cursor_position # None
    /\ w.cursor_position[1][1] \in 0..w.width
    /\ w.cursor_position[1][2] \in 0..w.height

\* x is the rational (2p - size) / size and lies in [-1, 1]
IsNdcOf(x, p, size) ==
    /\ IsFinite(x)
    /\ x[1] * size = (2 * p - size) * x[2]
    /\ FLe(Lit(-1), x) /\ FLe(x, Lit(1))
    /\ (p = 0 => x = Lit(-1))
    /\ (2 * p = size => x = Lit(0))
    /\ (p = size => x = Lit(1))

\* C6: in a viewport of positive size, a cursor inside it is mapped to
\* ndc = 2 * (p / size) - 1 on each axis, a point of [-1, 1] x [-1, 1]
C6_PixelToNdc ==
    (ray # None /\ ValidViewport(TheWindow) /\ InViewport(TheWindow)) =>
        /\ IsNdcOf(ray[1].ndc[1], TheWindow.cursor_position[1][1], TheWindow.width)
        /\ IsNdcOf(ray[1].ndc[2], TheWindow.cursor_position[1][2], TheWindow.height)

C6_Witness ==
    /\ ray # None
    /\ TheWindow = Window(4, 2, Some(<<3, 1>>))
    /\ ray[1].ndc = <<F(1, 2), Lit(0)>>

Scaled(w, k) ==
    Window(k * w.width, k * w.height,
           IF w.cursor_position = None THEN None
           ELSE Some(<<k * w.cursor_position[1][1], k * w.cursor_position[1][2]>>))

Centred(w) ==
    /\ ValidViewport(w)
    /\ w.cursor_position # None
    /\ 2 * w.cursor_position[1][1] = w.width
    /\ 2 * w.cursor_position[1][2] = w.height

\* C7: the ray of viewport (w, h) and cursor (px, py) is the ray of viewport
\* (2w, 2h) and cursor (2px, 2py) under the same camera, and the centre of
\* the viewport gives the same ray at every viewport size
C7_ScaleInvariance ==
    ray # None =>
        /\ SameRay(ray[1], ray_from_mouse_position(Scaled(TheWindow, 2), TheCamera))
        /\ Centred(TheWindow) =>
               \A w2 \in RayWindows :
                   Centred(w2) => SameRay(ray[1], ray_from_mouse_position(w2, TheCamera))

C7_Witness ==
    /\ ray # None
    /\ TheWindow = Window(2, 4, Some(<<1, 3>>))
    /\ Invertible(TheCamera)
    /\ FiniteVec(ray[1].origin) /\ FiniteVec(ray[1].direction)
    /\ ray[1].ndc = <<Lit(0), F(1, 2)>>

-----------------------------------------------------------------------------
(* Properties of cast_shape (Spec)                                         *)

Spawned == 1..Len(bodies)

\* the frame's cast_shape runs in this step
CastStep == pc = "update" /\ ~panicked

\* C1: no body is spawned by a cast whose camera has a projection matrix
\* with determinant zero
C1_DegenerateGuard ==
    \A i \in Spawned : Invertible(bodies[i].click.camera)

\* C2: no body is spawned by a cast made while the window has width or
\* height zero
C2_InvalidViewport ==
    \A i \in Spawned : ValidViewport(bodies[i].click.window)

\* C3: no cast aborts the update loop
C3_FailureLocality == ~panicked

\* the near and far points of a cast, from the NDC pick point of the click
NearPoint(click) ==
    unproject(click.camera, pick_point(click.window)[1], pick_point(click.window)[2], Lit(-1))

FarPoint(click) ==
    unproject(click.camera, pick_point(click.window)[1], pick_point(click.window)[2], Lit(1))

\* the clicks of the frame loop, and their near and far points
Clicks == {[window |-> w[1], camera |-> c] : w \in FrameWindows \ {None}, c \in FrameCameras}

Near == [k \in Clicks |-> NearPoint(k)]

Far == [k \in Clicks |-> FarPoint(k)]

ForwardAxis == [t \in Poses |-> forward(t)]

\* v = k * axis with k > 0
AlongAxis(v, axis, k) == \A i \in 1..3 : v[i] = FMul(axis[i], Lit(k))

\* C5: every spawned body is placed at the near point of its click's ray,
\* has the vector far - near itself as linear velocity, and has an impulse
\* of magnitude 5000 along the camera's forward axis whatever the cursor
C5_SpawnContract ==
    \A i \in Spawned :
        LET b == bodies[i]
        IN  /\ b.translation = Near[b.click]
            /\ b.linvel = Vec3Sub(Far[b.click], Near[b.click])
            /\ Dot3(ForwardAxis[b.click.camera.transform],
                    ForwardAxis[b.click.camera.transform]) = Lit(1)
            /\ AlongAxis(b.impulse, ForwardAxis[b.click.camera.transform], ImpulseMagnitude)
            /\ Dot3(b.impulse, b.impulse) = Lit(ImpulseMagnitude * ImpulseMagnitude)
            /\ \A j \in Spawned :
                   bodies[j].click.camera.transform = b.click.camera.transform =>
                       bodies[j].impulse = b.impulse

\* two bodies shot with one turned camera through different cursor
\* positions: finite rays that differ, a velocity that is not a unit vector
C5_Witness ==
    /\ Len(bodies) >= 2
    /\ bodies[1].click.camera = Camera(Lit(1), PoseTurned)
    /\ bodies[2].click.camera = Camera(Lit(1), PoseTurned)
    /\ bodies[1].click.window = Window(2, 2, None)
    /\ bodies[2].click.window = Window(2, 2, Some(<<1, 1>>))
    /\ FiniteVec(bodies[1].translation) /\ FiniteVec(bodies[1].linvel)
    /\ bodies[1].linvel # bodies[2].linvel
    /\ Dot3(bodies[2].linvel, bodies[2].linvel) = F(1, 25)
    /\ bodies[1].impulse = <<Lit(-4000), Lit(0), Lit(-3000)>>
    /\ bodies[2].impulse = bodies[1].impulse

C9_SpawnOnClickEdges ==
    [][CastStep =>
          /\ Len(bodies') = Len(bodies)
                 + (IF "Left" \in mouse_button_input.just_pressed THEN Len(cameras) ELSE 0)
          /\ SubSeq(bodies', 1, Len(bodies)) = bodies]_vars

-----------------------------------------------------------------------------
(* Properties of collision_events (SpecCollision)                          *)

Colliding(e) == \E pair \in contacts : e \in pair

\* C10: once the events are processed, every body in contact is yellow and
\* no body in contact is blue
C10_CollisionPainting ==
    events = <<>> =>
        \A e \in Entities :
            /\ Colliding(e) => colour[e] = "YELLOW"
            /\ colour[e] = "BLUE" => ~Colliding(e)

====
